---- MODULE Spec2Model ----
(***************************************************************************)
(* A model of src/utils/imageProcessor.ts: processImages (the batch loop), *)
(* createCombinedImage (one composite: a canvas, two image loads joined by *)
(* checkBothLoaded, drawImage per half, the text overlay, the JPEG data    *)
(* URL) and downloadAsZip (one archive entry per result name).             *)
(*                                                                         *)
(* Strings the code takes apart (file names, display names, text) are      *)
(* tuples of one-character strings; numbers the code divides are exact     *)
(* rationals <<numerator, denominator>> in lowest terms.                   *)
(***************************************************************************)
EXTENDS Integers, Sequences, FiniteSets, TLC

\* ------------------------------------------------------------------ bounds

\* The longest input collection on either side.
MaxPhotos == 2

\* The largest native width or height (in pixels) of the photos drawImage is
\* applied to in SpecDraw.
MaxDim == 5

\* ------------------------------------------------------- program constants

CanvasWidth == 1920

CanvasHeight == 1080

TextMargin == 20

DefaultStrokeWidth == 2

\* ---------------------------------------------------------------- rationals

Abs(n) == IF n < 0 THEN -n ELSE n

RECURSIVE GCD(_, _)
GCD(a, b) == IF b = 0 THEN a ELSE GCD(b, a % b)

\* n/d in lowest terms with a positive denominator (d # 0).
Rat(n, d) ==
  LET g == GCD(Abs(n), Abs(d))
      s == IF d < 0 THEN -1 ELSE 1
  IN  <<(s * n) \div g, (s * d) \div g>>

RInt(n) == <<n, 1>>

RAdd(p, q) == Rat(p[1] * q[2] + q[1] * p[2], p[2] * q[2])

RSub(p, q) == Rat(p[1] * q[2] - q[1] * p[2], p[2] * q[2])

RMul(p, q) == Rat(p[1] * q[1], p[2] * q[2])

\* q # 0
RDiv(p, q) == Rat(p[1] * q[2], p[2] * q[1])

RNeg(p) == <<-p[1], p[2]>>

RLess(p, q) == p[1] * q[2] < q[1] * p[2]

RLeq(p, q) == p[1] * q[2] <= q[1] * p[2]

\* ------------------------------------------------------------------ strings

Min(a, b) == IF a < b THEN a ELSE b

\* The collation rank of a character under localeCompare (root collation:
\* punctuation before digits before letters), for the characters of the
\* file names in PhotoCatalogue.
CharRank(c) ==
  CASE c = "_" -> 0
    [] c = "." -> 1
    [] c = "0" -> 2
    [] c = "1" -> 3
    [] c = "2" -> 4
    [] c = "A" -> 5
    [] c = "J" -> 6
    [] c = "S" -> 7
    [] OTHER -> 8

\* a.localeCompare(b): negative, zero or positive.
RECURSIVE LocaleCompare(_, _)
LocaleCompare(a, b) ==
  IF a = <<>> /\ b = <<>> THEN 0
  ELSE IF a = <<>> THEN -1
  ELSE IF b = <<>> THEN 1
  ELSE IF CharRank(Head(a)) < CharRank(Head(b)) THEN -1
  ELSE IF CharRank(Head(a)) > CharRank(Head(b)) THEN 1
  ELSE LocaleCompare(Tail(a), Tail(b))

\* Whether sep occurs in s at position k (1-based).
OccursAt(s, sep, k) ==
  /\ k + Len(sep) - 1 <= Len(s)
  /\ \A j \in 1..Len(sep) : s[k + j - 1] = sep[j]

\* String.prototype.split(sep) for a non-empty separator: the pieces of s
\* between the occurrences of sep, found left to right.
RECURSIVE SplitFrom(_, _, _, _)
SplitFrom(s, sep, k, piece) ==
  IF k > Len(s) THEN <<piece>>
  ELSE IF OccursAt(s, sep, k)
       THEN <<piece>> \o SplitFrom(s, sep, k + Len(sep), <<>>)
       ELSE SplitFrom(s, sep, k + 1, Append(piece, s[k]))

Split(s, sep) == SplitFrom(s, sep, 1, <<>>)

\* What a template literal renders for an array element that is missing.
Undefined == <<"u", "n", "d", "e", "f", "i", "n", "e", "d">>

\* [...photos].sort((a, b) => a.name.localeCompare(b.name)): Array.prototype
\* .sort is stable, so a photo is inserted after the photos it ties with.
RECURSIVE InsertSorted(_, _)
InsertSorted(sorted, p) ==
  IF sorted = <<>> THEN <<p>>
  ELSE IF LocaleCompare(p.name, Head(sorted).name) < 0
       THEN <<p>> \o sorted
       ELSE <<Head(sorted)>> \o InsertSorted(Tail(sorted), p)

\* SortByName without the sort: the collection in the order given.
SortByNameUnsorted(photos) == photos

RECURSIVE SortByName(_)
SortByName(photos) ==
  IF photos = <<>> THEN <<>>
  ELSE InsertSorted(SortByName(SubSeq(photos, 1, Len(photos) - 1)),
                    photos[Len(photos)])

\* Lines 17-20: the display name derived from the left photo's file name.
FormattedName(fileName) ==
  LET nameParts == Split(Split(fileName, <<"_", "0", "1">>)[1], <<"_">>)
      lastName  == nameParts[1]
      firstName == IF Len(nameParts) >= 2 THEN nameParts[2] ELSE Undefined
  IN  firstName \o <<" ">> \o lastName

\* ------------------------------------------------------------------- canvas

\* The 2D context's current transformation matrix <<a, b, c, d, e, f>>:
\* (x, y) maps to (a x + c y + e, b x + d y + f).
IdentityMatrix == <<RInt(1), RInt(0), RInt(0), RInt(1), RInt(0), RInt(0)>>

\* ctx.translate(tx, ty)
Translate(m, tx, ty) ==
  <<m[1], m[2], m[3], m[4],
    RAdd(RAdd(RMul(m[1], tx), RMul(m[3], ty)), m[5]),
    RAdd(RAdd(RMul(m[2], tx), RMul(m[4], ty)), m[6])>>

\* ctx.scale(sx, sy)
Scale(m, sx, sy) ==
  <<RMul(m[1], sx), RMul(m[2], sx), RMul(m[3], sy), RMul(m[4], sy), m[5], m[6]>>

\* Math.cos and Math.sin of (degrees * Math.PI) / 180, exact for the right
\* angles the inputs are drawn from.
Cos(deg) ==
  CASE deg % 360 = 0 -> RInt(1)
    [] deg % 360 = 180 -> RInt(-1)
    [] OTHER -> RInt(0)

Sin(deg) ==
  CASE deg % 360 = 90 -> RInt(1)
    [] deg % 360 = 270 -> RInt(-1)
    [] OTHER -> RInt(0)

\* ctx.rotate(angle)
Rotate(m, deg) ==
  <<RAdd(RMul(m[1], Cos(deg)), RMul(m[3], Sin(deg))),
    RAdd(RMul(m[2], Cos(deg)), RMul(m[4], Sin(deg))),
    RSub(RMul(m[3], Cos(deg)), RMul(m[1], Sin(deg))),
    RSub(RMul(m[4], Cos(deg)), RMul(m[2], Sin(deg))),
    m[5], m[6]>>

\* The canvas-space image of the local point (px, py) under m.
Apply(m, px, py) ==
  <<RAdd(RAdd(RMul(m[1], px), RMul(m[3], py)), m[5]),
    RAdd(RAdd(RMul(m[2], px), RMul(m[4], py)), m[6])>>

Det(m) == RSub(RMul(m[1], m[4]), RMul(m[2], m[3]))

\* Lines 50-62: the canvas after createElement, getContext, the size and
\* the white background. ops is what has been painted, in order; ctm is the
\* matrix outside any save()/restore() bracket.
NewCanvas ==
  [width  |-> CanvasWidth,
   height |-> CanvasHeight,
   ctm    |-> IdentityMatrix,
   ops    |-> <<[op |-> "fillRect", style |-> "#FFFFFF",
                 rect |-> <<0, 0, CanvasWidth, CanvasHeight>>]>>]

\* ApplyTransform that skips a transform whose scale is not positive.
ApplyTransformIfPositive(m, transform) ==
  IF transform.defined /\ RLess(RInt(0), transform.scale)
  THEN Translate(Scale(Rotate(m, transform.rotation),
                       transform.scale, transform.scale),
                 RInt(transform.position.x), RInt(transform.position.y))
  ELSE m

\* Lines 81-85: the optional per-photo transform, applied as given.
ApplyTransform(m, transform) ==
  IF transform.defined
  THEN Translate(Scale(Rotate(m, transform.rotation),
                       transform.scale, transform.scale),
                 RInt(transform.position.x), RInt(transform.position.y))
  ELSE m

\* Line 88: "Move back".
MoveBack(m, x, halfWidth, height) ==
  Translate(m, RNeg(RDiv(halfWidth, RInt(2))), RNeg(RDiv(height, RInt(2))))

\* Lines 91-103: the destination rectangle <<drawX, drawY, drawWidth,
\* drawHeight>> in the context's local coordinates.
DrawRect(img, x, halfWidth, height) ==
  LET imgRatio   == Rat(img.width, img.height)
      wider      == RLess(RDiv(halfWidth, height), imgRatio)
      drawWidth  == IF wider THEN RMul(height, imgRatio) ELSE halfWidth
      drawHeight == IF wider THEN height ELSE RDiv(halfWidth, imgRatio)
      drawX      == RAdd(x, RDiv(RSub(halfWidth, drawWidth), RInt(2)))
      drawY      == RDiv(RSub(height, drawHeight), RInt(2))
  IN  <<drawX, drawY, drawWidth, drawHeight>>

\* Lines 72-107: drawImage(img, x, transform) on the canvas: save, move to
\* the centre of the half, transform, move back, paint, restore.
DrawImage(canvas, img, x, transform) ==
  LET halfWidth == Rat(canvas.width, 2)
      height    == RInt(canvas.height)
      centred   == Translate(canvas.ctm, RAdd(x, RDiv(halfWidth, RInt(2))),
                             RDiv(height, RInt(2)))
      m         == MoveBack(ApplyTransform(centred, transform), x, halfWidth, height)
  IN  [canvas EXCEPT
         !.ops = Append(@, [op   |-> "drawImage",
                            img  |-> img.src,
                            ctm  |-> m,
                            rect |-> DrawRect(img, x, halfWidth, height)])]

\* ctx.measureText(text).width in the font set on line 121: the browser's
\* answer, here half the font size per character.
MeasureText(text, size) == Rat(Len(text) * size, 2)

\* Lines 131-148: the text anchor for a position.
TextAnchor(canvas, position, textWidth, textHeight) ==
  CASE position = "top-left" ->
         <<RInt(TextMargin), RInt(textHeight + TextMargin)>>
    [] position = "top-right" ->
         <<RSub(RSub(RInt(canvas.width), textWidth), RInt(TextMargin)),
           RInt(textHeight + TextMargin)>>
    [] position = "bottom-left" ->
         <<RInt(TextMargin), RInt(canvas.height - TextMargin)>>
    [] position = "bottom-right" ->
         <<RSub(RSub(RInt(canvas.width), textWidth), RInt(TextMargin)),
           RInt(canvas.height - TextMargin)>>
    [] OTHER -> <<RInt(0), RInt(0)>>

\* TextWanted without the enabled flag.
TextWantedIgnoringEnabled(textOptions) == textOptions.text # <<>>

\* Line 116: textOptions?.enabled && textOptions?.text (a non-empty string).
TextWanted(textOptions) == textOptions.enabled /\ textOptions.text # <<>>

\* Lines 116-157: the text overlay, an optional outline pass and a fill pass.
DrawText(canvas, textOptions) ==
  IF ~TextWanted(textOptions) THEN canvas
  ELSE
    LET fontStyle == (IF textOptions.bold THEN <<"bold">> ELSE <<>>)
                     \o (IF textOptions.italic THEN <<"italic">> ELSE <<>>)
        font      == [style |-> fontStyle, size |-> textOptions.size,
                      family |-> textOptions.font]
        fillStyle == IF textOptions.color # "" THEN textOptions.color ELSE "#000000"
        text      == textOptions.text
        anchor    == TextAnchor(canvas, textOptions.position,
                                MeasureText(text, textOptions.size), textOptions.size)
        stroke    == IF textOptions.stroke
                     THEN <<[op |-> "strokeText", text |-> text, at |-> anchor,
                             font |-> font,
                             style |-> IF textOptions.strokeColor # ""
                                       THEN textOptions.strokeColor ELSE "#FFFFFF",
                             lineWidth |-> IF textOptions.strokeWidth # 0
                                           THEN textOptions.strokeWidth
                                           ELSE DefaultStrokeWidth]>>
                     ELSE <<>>
        fill      == <<[op |-> "fillText", text |-> text, at |-> anchor,
                        font |-> font, style |-> fillStyle]>>
    IN  [canvas EXCEPT !.ops = @ \o stroke \o fill]

\* ----------------------------------------------------------------- encoding

Base64Alphabet ==
  <<"A", "B", "C", "D", "E", "F", "G", "H", "I", "J", "K", "L", "M", "N", "O", "P",
    "Q", "R", "S", "T", "U", "V", "W", "X", "Y", "Z", "a", "b", "c", "d", "e", "f",
    "g", "h", "i", "j", "k", "l", "m", "n", "o", "p", "q", "r", "s", "t", "u", "v",
    "w", "x", "y", "z", "0", "1", "2", "3", "4", "5", "6", "7", "8", "9", "+", "/">>

Sextet(v) == Base64Alphabet[v + 1]

SextetValue(c) == (CHOOSE k \in 1..64 : Base64Alphabet[k] = c) - 1

\* Base64 of a byte string, three bytes to four characters, "=" padded.
RECURSIVE Base64Encode(_)
Base64Encode(bytes) ==
  IF bytes = <<>> THEN <<>>
  ELSE IF Len(bytes) = 1
  THEN <<Sextet(bytes[1] \div 4), Sextet((bytes[1] % 4) * 16), "=", "=">>
  ELSE IF Len(bytes) = 2
  THEN <<Sextet(bytes[1] \div 4),
         Sextet((bytes[1] % 4) * 16 + bytes[2] \div 16),
         Sextet((bytes[2] % 16) * 4), "=">>
  ELSE <<Sextet(bytes[1] \div 4),
         Sextet((bytes[1] % 4) * 16 + bytes[2] \div 16),
         Sextet((bytes[2] % 16) * 4 + bytes[3] \div 64),
         Sextet(bytes[3] % 64)>>
       \o Base64Encode(SubSeq(bytes, 4, Len(bytes)))

\* The bytes of a base64 text (JSZip's { base64: true }).
RECURSIVE Base64Decode(_)
Base64Decode(chars) ==
  IF Len(chars) < 4 THEN <<>>
  ELSE
    LET v1 == SextetValue(chars[1])
        v2 == SextetValue(chars[2])
        b1 == <<v1 * 4 + v2 \div 16>>
        b2 == IF chars[3] = "=" THEN <<>>
              ELSE <<(v2 % 16) * 16 + SextetValue(chars[3]) \div 4>>
        b3 == IF chars[3] = "=" \/ chars[4] = "=" THEN <<>>
              ELSE <<(SextetValue(chars[3]) % 4) * 64 + SextetValue(chars[4])>>
    IN  b1 \o b2 \o b3 \o Base64Decode(SubSeq(chars, 5, Len(chars)))

\* The byte one painted operation leaves in the encoded image: the source
\* of a drawn photo (nothing of it when the matrix is singular), the length
\* of a drawn text.
OpByte(o) ==
  CASE o.op = "drawImage" -> IF Det(o.ctm) = RInt(0) THEN 0 ELSE o.img
    [] o.op = "fillText" -> 100 + Len(o.text)
    [] o.op = "strokeText" -> 200 + Len(o.text)
    [] OTHER -> 255

\* The JPEG encoder of canvas.toDataURL('image/jpeg', 0.9): a byte string
\* determined by what was painted.
JpegEncode(canvas) == [k \in 1..Len(canvas.ops) |-> OpByte(canvas.ops[k])]

\* Line 159: canvas.toDataURL('image/jpeg', 0.9).
ToDataURL(canvas) ==
  <<"data:image/jpeg;base64", ",">> \o Base64Encode(JpegEncode(canvas))

\* Line 198: image.dataUrl.split(',')[1].
DataOf(dataUrl) == Split(dataUrl, <<",">>)[2]

\* Line 197: `${image.name}_combined.jpg`.
FileName(name) == name \o <<"_combined.jpg">>

\* Line 199: zip.file(fileName, data, { base64: true }): JSZip keeps one
\* entry per path, a second file of the same path replaces the first.
ZipFile(entries, fileName, data) ==
  {e \in entries : e.name # fileName}
    \cup {[name |-> fileName, data |-> Base64Decode(data)]}

\* Lines 196-200: images.forEach(...) over images[k..].
RECURSIVE ZipAll(_, _, _)
ZipAll(entries, images, k) ==
  IF k > Len(images) THEN entries
  ELSE ZipAll(ZipFile(entries, FileName(images[k].name), DataOf(images[k].dataUrl)),
              images, k + 1)

\* ------------------------------------------------------------------- inputs

NoTransform == [defined |-> FALSE]

Transform(rotation, scale, px, py) ==
  [defined |-> TRUE, rotation |-> rotation, scale |-> scale,
   position |-> [x |-> px, y |-> py]]

\* A FileData: name, preview (the object URL, a number here) and the
\* optional transform; width and height are those of the raster the
\* preview decodes to.
Photo(name, preview, transform, width, height) ==
  [name |-> name, preview |-> preview, transform |-> transform,
   width |-> width, height |-> height]

\* The left photos the inputs are drawn from: two files of one name, a name
\* without the "_01" marker that derives the same display name, and a name
\* of a single token.
BabyCatalogue ==
  { Photo(<<"S", "_", "J", "_", "0", "1">>, 1, NoTransform, 4, 3),
    Photo(<<"S", "_", "J", "_", "0", "2">>, 2, Transform(0, RInt(0), 0, 0), 3, 4),
    Photo(<<"A">>, 3, Transform(90, RInt(2), 10, -5), 1, 1),
    Photo(<<"S", "_", "J", "_", "0", "1">>, 4, Transform(0, RInt(-1), 0, 0), 8, 9) }

\* The right photos the inputs are drawn from.
CurrentCatalogue ==
  { Photo(<<"J", "_", "0", "1">>, 5, Transform(0, RInt(1), 0, 0), 16, 9),
    Photo(<<"A", "_", "0", "2">>, 6, NoTransform, 9, 16),
    Photo(<<"2">>, 7, Transform(180, Rat(1, 2), 0, 30), 2, 1) }

TextOptions(enabled, text, position, stroke, bold, color, strokeColor, strokeWidth) ==
  [enabled |-> enabled, text |-> text, font |-> "Arial", size |-> 48,
   bold |-> bold, italic |-> ~bold, color |-> color, position |-> position,
   stroke |-> stroke, strokeColor |-> strokeColor, strokeWidth |-> strokeWidth]

\* The global text options the inputs are drawn from; an absent text, colour
\* or stroke colour is the empty string, an absent stroke width is 0.
TextOptionsChoices ==
  { TextOptions(FALSE, <<>>, "top-left", FALSE, FALSE, "", "", 0),
    TextOptions(FALSE, <<"H", "i">>, "bottom-left", TRUE, TRUE, "#112233", "", 0),
    TextOptions(TRUE, <<>>, "bottom-right", FALSE, FALSE, "", "", 0),
    TextOptions(TRUE, <<"H", "i">>, "top-left", TRUE, TRUE, "#112233", "", 0),
    TextOptions(TRUE, <<>>, "top-right", TRUE, FALSE, "", "#FF0000", 4) }

\* The sequences without repetition of at most MaxPhotos photos of a
\* catalogue, in every order.
InputsFrom(catalogue) ==
  { photos \in UNION { [1..n -> catalogue] : n \in 0..MaxPhotos } :
      \A j, k \in DOMAIN photos : j # k => photos[j] # photos[k] }

\* -------------------------------------------------------------------- state

VARIABLES
  babyPhotos,           \* processImages' arguments
  currentPhotos,
  globalTextOptions,
  pc,                   \* where processImages stands
  sortedBabyPhotos,
  sortedCurrentPhotos,
  totalImages,
  i,                    \* the loop index
  results,              \* the local results array
  progressCalls,        \* the arguments onProgress was called with, in order
  comps,                \* the createCombinedImage calls made, in order
  returned,             \* the array processImages resolved with
  thrown,               \* the message of the error processImages rejected with
  zip,                  \* the entries of downloadAsZip's archive
  downloaded,           \* the link.download downloadAsZip clicked, "" before
  draw                  \* drawImage on its own (SpecDraw)

vars == <<babyPhotos, currentPhotos, globalTextOptions, pc, sortedBabyPhotos,
          sortedCurrentPhotos, totalImages, i, results, progressCalls, comps,
          returned, thrown, zip, downloaded, draw>>

inputs == <<babyPhotos, currentPhotos, globalTextOptions>>

\* Lines 22-26: the per-pair text options.
TextOpts(global, formattedName) ==
  [global EXCEPT
     !.text  = IF global.enabled
               THEN (IF global.text # <<>> THEN global.text ELSE formattedName)
               ELSE formattedName,
     !.color = IF global.color # "" THEN global.color ELSE "#000000"]

\* Progress from the loop index itself: i / totalImages * 100.
ProgressOffByOne(k, total) == RMul(Rat(k, total), RInt(100))

\* Line 36: (i + 1) / totalImages * 100.
Progress(k, total) == RMul(Rat(k + 1, total), RInt(100))

\* NewComposite with the two image loads started whether or not the context
\* was obtained.
NewCompositeLoadingAnyway(k, leftFile, rightFile, name, textOptions, ctxOk) ==
  [index       |-> k,
   leftFile    |-> leftFile,
   rightFile   |-> rightFile,
   name        |-> name,
   textOptions |-> textOptions,
   canvas      |-> IF ctxOk THEN NewCanvas
                   ELSE [width |-> 300, height |-> 150, ctm |-> IdentityMatrix,
                         ops |-> <<>>],
   leftImg     |-> "pending",
   rightImg    |-> "pending",
   leftLoaded  |-> FALSE,
   rightLoaded |-> FALSE,
   encoded     |-> 0,
   promise     |-> IF ctxOk THEN "pending" ELSE "rejected",
   result      |-> <<>>,
   error       |-> IF ctxOk THEN <<>> ELSE <<"Could not get canvas context">>]

\* Lines 49-66 and 188-189: the executor of createCombinedImage's promise up
\* to the two src assignments; without a 2D context it rejects before the
\* canvas is sized or painted (a new canvas is 300 by 150) and before any
\* image is created.
NewComposite(k, leftFile, rightFile, name, textOptions, ctxOk) ==
  [index       |-> k,
   leftFile    |-> leftFile,
   rightFile   |-> rightFile,
   name        |-> name,
   textOptions |-> textOptions,
   canvas      |-> IF ctxOk THEN NewCanvas
                   ELSE [width |-> 300, height |-> 150, ctm |-> IdentityMatrix,
                         ops |-> <<>>],
   leftImg     |-> IF ctxOk THEN "pending" ELSE "none",
   rightImg    |-> IF ctxOk THEN "pending" ELSE "none",
   leftLoaded  |-> FALSE,
   rightLoaded |-> FALSE,
   encoded     |-> 0,
   promise     |-> IF ctxOk THEN "pending" ELSE "rejected",
   result      |-> <<>>,
   error       |-> IF ctxOk THEN <<>> ELSE <<"Could not get canvas context">>]

\* PcAfterStart without the await: the loop goes on to its timer while the
\* composite is still pending.
PcAfterStartNoAwait(ctxOk) == IF ctxOk THEN "sleep" ELSE "resume"

\* Line 28: processImages awaits the composite it has just started; a
\* promise already rejected resumes it in the next microtask.
PcAfterStart(ctxOk) == IF ctxOk THEN "await" ELSE "resume"

\* Lines 16-33 and 40: the loop condition, and one iteration as far as the
\* await, or the return.
Loop(k, total, sortedBaby, sortedCurrent, ctxOk) ==
  IF k < total
  THEN LET formattedName == FormattedName(sortedBaby[k + 1].name)
       IN  /\ comps' = Append(comps,
                 NewComposite(k, sortedBaby[k + 1], sortedCurrent[k + 1],
                              formattedName,
                              TextOpts(globalTextOptions, formattedName), ctxOk))
           /\ pc' = PcAfterStart(ctxOk)
           /\ UNCHANGED returned
  ELSE /\ pc' = "returned"
       /\ returned' = results
       /\ UNCHANGED comps

\* Lines 10-14, then the first pass of the loop: processImages is called.
Call ==
  /\ pc = "idle"
  /\ \E ctxOk \in BOOLEAN :
       LET total == Min(Len(babyPhotos), Len(currentPhotos))
           sb    == SortByName(babyPhotos)
           sc    == SortByName(currentPhotos)
       IN  /\ results' = <<>>
           /\ totalImages' = total
           /\ sortedBabyPhotos' = sb
           /\ sortedCurrentPhotos' = sc
           /\ i' = 0
           /\ Loop(0, total, sb, sc, ctxOk)
  /\ UNCHANGED <<inputs, progressCalls, thrown, zip, downloaded, draw>>

\* The decoded raster behind an image element of a composite.
ImageOf(file) == [src |-> file.preview, width |-> file.width, height |-> file.height]

\* Lines 109-171: what checkBothLoaded does once both flags are set: the
\* two halves, the text, the data URL and resolve(...).
Compose(c) ==
  LET left   == DrawImage(c.canvas, ImageOf(c.leftFile), RInt(0), c.leftFile.transform)
      right  == DrawImage(left, ImageOf(c.rightFile), Rat(c.canvas.width, 2),
                          c.rightFile.transform)
      canvas == DrawText(right, c.textOptions)
      value  == [dataUrl     |-> ToDataURL(canvas),
                 name        |-> c.name,
                 leftPhoto   |-> c.leftFile.preview,
                 rightPhoto  |-> c.rightFile.preview,
                 textOptions |-> c.textOptions,
                 transform   |-> [left  |-> c.leftFile.transform,
                                  right |-> c.rightFile.transform]]
  IN  [c EXCEPT !.canvas  = canvas,
                !.encoded = @ + 1,
                !.promise = IF @ = "pending" THEN "resolved" ELSE @,
                !.result  = IF c.promise = "pending" THEN <<value>> ELSE @]

\* BothLoaded with "or" for "and": one loaded image is enough.
EitherLoaded(c) == c.leftLoaded \/ c.rightLoaded

\* Lines 70-71: checkBothLoaded's condition.
BothLoaded(c) == c.leftLoaded /\ c.rightLoaded

\* Lines 70-173: checkBothLoaded.
CheckBothLoaded(c) == IF BothLoaded(c) THEN Compose(c) ELSE c

\* Reject with the left file's name in the message whichever side failed.
RejectNamingLeftFile(c, side, file) ==
  IF c.promise = "pending"
  THEN [c EXCEPT !.promise = "rejected",
                 !.error   = <<"Failed to load ", side, " image: ">> \o c.leftFile.name]
  ELSE c

\* Lines 185-186: reject(new Error(`Failed to load <side> image: <name>`));
\* a promise already settled stays as it is.
Reject(c, side, file) ==
  IF c.promise = "pending"
  THEN [c EXCEPT !.promise = "rejected",
                 !.error   = <<"Failed to load ", side, " image: ">> \o file.name]
  ELSE c

\* processImages, awaiting composite k, is resumed in the next microtask
\* once that promise settles.
PcAfterSettle(k, before, after) ==
  IF pc = "await" /\ k = Len(comps) /\ before.promise = "pending"
     /\ after.promise # "pending"
  THEN "resume" ELSE pc

\* An image callback is a task of the event loop: it runs only when no
\* microtask (the continuation of processImages) is pending.
TaskMayRun == pc # "resume"

\* Lines 175-178: leftImg.onload.
LeftOnload(k) ==
  /\ TaskMayRun
  /\ comps[k].leftImg = "pending"
  /\ LET c == CheckBothLoaded([comps[k] EXCEPT !.leftImg = "loaded",
                                                !.leftLoaded = TRUE])
     IN  /\ comps' = [comps EXCEPT ![k] = c]
         /\ pc' = PcAfterSettle(k, comps[k], c)
  /\ UNCHANGED <<inputs, sortedBabyPhotos, sortedCurrentPhotos, totalImages, i,
                 results, progressCalls, returned, thrown, zip, downloaded, draw>>

\* Lines 180-183: rightImg.onload.
RightOnload(k) ==
  /\ TaskMayRun
  /\ comps[k].rightImg = "pending"
  /\ LET c == CheckBothLoaded([comps[k] EXCEPT !.rightImg = "loaded",
                                                !.rightLoaded = TRUE])
     IN  /\ comps' = [comps EXCEPT ![k] = c]
         /\ pc' = PcAfterSettle(k, comps[k], c)
  /\ UNCHANGED <<inputs, sortedBabyPhotos, sortedCurrentPhotos, totalImages, i,
                 results, progressCalls, returned, thrown, zip, downloaded, draw>>

\* Line 185: leftImg.onerror.
LeftOnerror(k) ==
  /\ TaskMayRun
  /\ comps[k].leftImg = "pending"
  /\ LET c == Reject([comps[k] EXCEPT !.leftImg = "error"], "left", comps[k].leftFile)
     IN  /\ comps' = [comps EXCEPT ![k] = c]
         /\ pc' = PcAfterSettle(k, comps[k], c)
  /\ UNCHANGED <<inputs, sortedBabyPhotos, sortedCurrentPhotos, totalImages, i,
                 results, progressCalls, returned, thrown, zip, downloaded, draw>>

\* Line 186: rightImg.onerror.
RightOnerror(k) ==
  /\ TaskMayRun
  /\ comps[k].rightImg = "pending"
  /\ LET c == Reject([comps[k] EXCEPT !.rightImg = "error"], "right", comps[k].rightFile)
     IN  /\ comps' = [comps EXCEPT ![k] = c]
         /\ pc' = PcAfterSettle(k, comps[k], c)
  /\ UNCHANGED <<inputs, sortedBabyPhotos, sortedCurrentPhotos, totalImages, i,
                 results, progressCalls, returned, thrown, zip, downloaded, draw>>

\* Lines 35-37: the await yields a result: push it, report progress, set
\* the 50 ms timer.
ResumeResolved ==
  /\ pc = "resume"
  /\ comps[Len(comps)].promise = "resolved"
  /\ results' = Append(results, comps[Len(comps)].result[1])
  /\ progressCalls' = Append(progressCalls, Progress(i, totalImages))
  /\ pc' = "sleep"
  /\ UNCHANGED <<inputs, sortedBabyPhotos, sortedCurrentPhotos, totalImages, i,
                 comps, returned, thrown, zip, downloaded, draw>>

\* Line 28: the await throws: processImages rejects with the error of the
\* composite, its local results are dropped with its frame.
ResumeRejected ==
  /\ pc = "resume"
  /\ comps[Len(comps)].promise = "rejected"
  /\ thrown' = comps[Len(comps)].error
  /\ pc' = "failed"
  /\ UNCHANGED <<inputs, sortedBabyPhotos, sortedCurrentPhotos, totalImages, i,
                 results, progressCalls, comps, returned, zip, downloaded, draw>>

\* Lines 37 and 16: the timer fires, i++, the next pass of the loop.
TimerFires ==
  /\ pc = "sleep"
  /\ i' = i + 1
  /\ \E ctxOk \in BOOLEAN :
       Loop(i + 1, totalImages, sortedBabyPhotos, sortedCurrentPhotos, ctxOk)
  /\ UNCHANGED <<inputs, sortedBabyPhotos, sortedCurrentPhotos, totalImages,
                 results, progressCalls, thrown, zip, downloaded, draw>>

\* Lines 193-213: downloadAsZip(images) with the array processImages
\* returned.
DownloadAsZip ==
  /\ pc = "returned"
  /\ downloaded = ""
  /\ zip' = ZipAll({}, returned, 1)
  /\ downloaded' = "processed_images.zip"
  /\ UNCHANGED <<inputs, pc, sortedBabyPhotos, sortedCurrentPhotos, totalImages, i,
                 results, progressCalls, comps, returned, thrown, draw>>

NoDraw == [phase |-> "off"]

Init ==
  /\ babyPhotos \in InputsFrom(BabyCatalogue)
  /\ currentPhotos \in InputsFrom(CurrentCatalogue)
  /\ globalTextOptions \in TextOptionsChoices
  /\ pc = "idle"
  /\ sortedBabyPhotos = <<>>
  /\ sortedCurrentPhotos = <<>>
  /\ totalImages = 0
  /\ i = 0
  /\ results = <<>>
  /\ progressCalls = <<>>
  /\ comps = <<>>
  /\ returned = <<>>
  /\ thrown = <<>>
  /\ zip = {}
  /\ downloaded = ""
  /\ draw = NoDraw

Next ==
  \/ Call
  \/ \E k \in DOMAIN comps : LeftOnload(k)
  \/ \E k \in DOMAIN comps : RightOnload(k)
  \/ \E k \in DOMAIN comps : LeftOnerror(k)
  \/ \E k \in DOMAIN comps : RightOnerror(k)
  \/ ResumeResolved
  \/ ResumeRejected
  \/ TimerFires
  \/ DownloadAsZip

Spec == Init /\ [][Next]_vars

\* --------------------------------------------------------- drawImage alone

\* The transforms drawImage is applied under in SpecDraw: none, the
\* identity written out, and one that rotates, scales and moves.
DrawTransforms ==
  { NoTransform, Transform(0, RInt(1), 0, 0), Transform(90, RInt(2), 10, -5) }

\* Lines 110 and 113: x is 0 for the left half, canvas.width / 2 for the right.
HalfX(canvas, half) == RMul(RInt(half), Rat(canvas.width, 2))

InitDraw ==
  /\ babyPhotos = <<>>
  /\ currentPhotos = <<>>
  /\ globalTextOptions = TextOptions(FALSE, <<>>, "top-left", FALSE, FALSE, "", "", 0)
  /\ pc = "idle"
  /\ sortedBabyPhotos = <<>>
  /\ sortedCurrentPhotos = <<>>
  /\ totalImages = 0
  /\ i = 0
  /\ results = <<>>
  /\ progressCalls = <<>>
  /\ comps = <<>>
  /\ returned = <<>>
  /\ thrown = <<>>
  /\ zip = {}
  /\ downloaded = ""
  /\ \E w \in 1..MaxDim, h \in 1..MaxDim, half \in {0, 1}, t \in DrawTransforms :
       draw = [phase |-> "ready", img |-> [src |-> 1, width |-> w, height |-> h],
               half |-> half, transform |-> t, canvas |-> NewCanvas]

\* One call of drawImage on a fresh canvas.
DrawHalf ==
  /\ draw.phase = "ready"
  /\ draw' = [draw EXCEPT
                !.phase = "drawn",
                !.canvas = DrawImage(@, draw.img, HalfX(@, draw.half), draw.transform)]
  /\ UNCHANGED <<inputs, pc, sortedBabyPhotos, sortedCurrentPhotos, totalImages, i,
                 results, progressCalls, comps, returned, thrown, zip, downloaded>>

NextDraw == DrawHalf

SpecDraw == InitDraw /\ [][NextDraw]_vars

\* ------------------------------------------------------------------- claims

Range(f) == {f[k] : k \in DOMAIN f}

OpsOfKind(canvas, kind) == SelectSeq(canvas.ops, LAMBDA o : o.op = kind)

\* The photo of a collection behind a preview.
PhotoOf(photos, preview) == CHOOSE p \in Range(photos) : p.preview = preview

\* previews (one per result, in order) are the first Len(previews) photos of
\* photos by ascending name: each a photo of the collection, none twice,
\* names never descending, and every photo left out ranked no earlier than
\* every photo taken.
FirstByName(photos, previews) ==
  /\ \A k \in DOMAIN previews : \E p \in Range(photos) : p.preview = previews[k]
  /\ \A j, k \in DOMAIN previews : j # k => previews[j] # previews[k]
  /\ \A j, k \in DOMAIN previews :
       j < k => LocaleCompare(PhotoOf(photos, previews[j]).name,
                              PhotoOf(photos, previews[k]).name) <= 0
  /\ \A p \in Range(photos) :
       p.preview \notin Range(previews) =>
         \A k \in DOMAIN previews :
           LocaleCompare(PhotoOf(photos, previews[k]).name, p.name) <= 0

\* C1: a processImages call that completes returns exactly min(|left|,
\* |right|) results, and result i is the composite of the i-th left photo by
\* ascending name with the i-th right photo by ascending name: no photo is in
\* two results and only photos ranked past the shorter length are left out.
C1_PairsBySortedRank ==
  pc = "returned" =>
    /\ Len(returned) = Min(Len(babyPhotos), Len(currentPhotos))
    /\ FirstByName(babyPhotos, [k \in DOMAIN returned |-> returned[k].leftPhoto])
    /\ FirstByName(currentPhotos, [k \in DOMAIN returned |-> returned[k].rightPhoto])
    /\ \A k \in DOMAIN returned :
         /\ returned[k] = comps[k].result[1]
         /\ LET drawn == OpsOfKind(comps[k].canvas, "drawImage")
            IN  /\ Len(drawn) = 2
                /\ drawn[1].img = returned[k].leftPhoto
                /\ drawn[2].img = returned[k].rightPhoto

\* C1's case: a completed run over collections of different lengths, the
\* left one not given in name order.
C1_Witness ==
  /\ pc = "returned"
  /\ Len(returned) >= 1
  /\ Len(babyPhotos) > Len(currentPhotos)
  /\ babyPhotos # sortedBabyPhotos

\* C2: onProgress is called once per completed composite, every value lies
\* in [0, 100], the values strictly increase, and when a run over a non-empty
\* batch completes the last value is exactly 100.
C2_ProgressMonotoneTo100 ==
  /\ Len(progressCalls) = Len(results)
  /\ pc \in {"sleep", "returned", "failed"} =>
       Len(progressCalls) =
         Cardinality({k \in DOMAIN comps : comps[k].promise = "resolved"})
  /\ \A k \in DOMAIN progressCalls :
       RLeq(RInt(0), progressCalls[k]) /\ RLeq(progressCalls[k], RInt(100))
  /\ \A k \in DOMAIN progressCalls :
       k > 1 => RLess(progressCalls[k - 1], progressCalls[k])
  /\ (pc = "returned" /\ totalImages > 0) =>
       /\ Len(progressCalls) = totalImages
       /\ progressCalls[Len(progressCalls)] = RInt(100)

\* C2's case: a run of two composites has completed.
C2_Witness == pc = "returned" /\ Len(progressCalls) = 2

\* C3: composites are strictly sequential: when composite k+1 has begun,
\* composite k has resolved, its result has been appended and onProgress has
\* been called for it, and none of its image loads is outstanding; at most
\* one composite is in flight in every reachable state.
C3_StrictlySequential ==
  /\ Cardinality({k \in DOMAIN comps : comps[k].promise = "pending"}) <= 1
  /\ \A k \in DOMAIN comps :
       k < Len(comps) =>
         /\ comps[k].promise = "resolved"
         /\ comps[k].leftImg = "loaded" /\ comps[k].rightImg = "loaded"
         /\ Len(results) >= k /\ results[k] = comps[k].result[1]
         /\ Len(progressCalls) >= k

\* C3's case: the second composite is in flight, one of its images loaded.
C3_Witness ==
  /\ Len(comps) = 2
  /\ comps[2].promise = "pending"
  /\ comps[2].rightImg = "loaded"

\* processImages has failed on a decode error.
DecodeFailed == pc = "failed" /\ thrown[1] = "Failed to load "

\* The message createCombinedImage rejects with for a side and a file name.
LoadErrorMessage(side, name) == <<"Failed to load ", side, " image: ">> \o name

\* The pair indices a decode error message can mean: those whose file on the
\* named side has the name in the message.
IndicesNamed(message) ==
  {k \in 0..(totalImages - 1) :
     \/ message = LoadErrorMessage("left", sortedBabyPhotos[k + 1].name)
     \/ message = LoadErrorMessage("right", sortedCurrentPhotos[k + 1].name)}

\* C4 as claimed: a decode failure on pair k is reported as a failure that
\* identifies index k, and the results for the indices < k have reached the
\* caller.
C4_Original ==
  DecodeFailed =>
    /\ IndicesNamed(thrown) = {comps[Len(comps)].index}
    /\ Len(returned) = comps[Len(comps)].index

\* C4 amended: a decode failure on pair k makes processImages reject with a
\* message naming the failing side and that photo's file name; nothing is
\* returned for any index, no later composite is started, no result exists
\* for k, and onProgress has been called exactly k times, for the indices
\* < k, with their percentages.
C4_DecodeFailureStopsBatch ==
  DecodeFailed =>
    LET c == comps[Len(comps)]
        k == c.index
    IN  /\ \/ c.leftImg = "error"
              /\ thrown = LoadErrorMessage("left", sortedBabyPhotos[k + 1].name)
           \/ c.rightImg = "error"
              /\ thrown = LoadErrorMessage("right", sortedCurrentPhotos[k + 1].name)
        /\ returned = <<>>
        /\ Len(comps) = k + 1
        /\ c.result = <<>>
        /\ Len(results) = k
        /\ Len(progressCalls) = k
        /\ \A j \in 1..k : progressCalls[j] = RMul(Rat(j, totalImages), RInt(100))

\* C4's case: the right photo of the second pair failed to decode.
C4_Witness ==
  /\ DecodeFailed
  /\ comps[Len(comps)].index = 1
  /\ comps[Len(comps)].rightImg = "error"
  /\ thrown[2] = "right"

\* C5: in every createCombinedImage call the halves are drawn and the canvas
\* encoded only after both images have loaded, and at most once; an image
\* error rejects the composite with a message naming a failed side and its
\* file, and no result is ever produced for it, also when the other image
\* has loaded.
C5_JoinOfTwoLoads ==
  \A k \in DOMAIN comps :
    LET c == comps[k]
    IN  /\ c.encoded <= 1
        /\ (c.encoded = 1 \/ Len(OpsOfKind(c.canvas, "drawImage")) > 0
            \/ c.result # <<>> \/ c.promise = "resolved") =>
             (c.leftImg = "loaded" /\ c.rightImg = "loaded")
        /\ (c.leftImg = "loaded" /\ c.rightImg = "loaded") =>
             (c.encoded = 1 /\ c.promise = "resolved" /\ c.result # <<>>)
        /\ (c.leftImg = "error" \/ c.rightImg = "error") =>
             /\ c.promise = "rejected"
             /\ c.result = <<>>
             /\ c.encoded = 0
             /\ \/ c.leftImg = "error"
                   /\ c.error = LoadErrorMessage("left", c.leftFile.name)
                \/ c.rightImg = "error"
                   /\ c.error = LoadErrorMessage("right", c.rightFile.name)

\* C5's case: the left image failed, processImages has already failed on
\* it, and the right image has loaded.
C5_Witness ==
  /\ pc = "failed"
  /\ comps[Len(comps)].leftImg = "error"
  /\ comps[Len(comps)].rightImg = "loaded"
  /\ comps[Len(comps)].error[2] = "left"

SurfaceFailed == pc = "failed" /\ thrown = <<"Could not get canvas context">>

\* C6 as claimed: a run that fails with 'Could not get canvas context' has
\* produced no composite and has not called onProgress.
C6_Original ==
  SurfaceFailed =>
    /\ results = <<>>
    /\ progressCalls = <<>>
    /\ \A k \in DOMAIN comps : comps[k].promise # "resolved"

\* C6 amended: a run that fails with 'Could not get canvas context' on pair
\* k has produced the composites of the k pairs before it and called
\* onProgress for each; for pair k nothing is painted, no image load is
\* started and no result is produced; no later pair is started and nothing
\* is returned.
C6_SurfaceFailureStopsAtPair ==
  SurfaceFailed =>
    LET c == comps[Len(comps)]
        k == c.index
    IN  /\ Len(comps) = k + 1
        /\ Len(results) = k
        /\ Len(progressCalls) = k
        /\ \A j \in 1..k : comps[j].promise = "resolved"
        /\ c.canvas.ops = <<>>
        /\ c.leftImg = "none" /\ c.rightImg = "none"
        /\ c.result = <<>>
        /\ returned = <<>>

\* C6's case: the context could not be obtained for the second pair.
C6_Witness == SurfaceFailed /\ comps[Len(comps)].index = 1

NonPositive(transform) == transform.defined /\ RLeq(transform.scale, RInt(0))

NonPositiveScale(c) ==
  NonPositive(c.leftFile.transform) \/ NonPositive(c.rightFile.transform)

\* The determinant drawImage's matrix has when the transform is applied as
\* given: the square of the scale.
ScaleSquared(transform) ==
  IF transform.defined THEN RMul(transform.scale, transform.scale) ELSE RInt(1)

\* C7 as claimed: a pair with a zero or negative scale makes processImages
\* fail before anything is drawn for it, and no result is produced for it.
C7_Original ==
  \A k \in DOMAIN comps :
    NonPositiveScale(comps[k]) =>
      /\ comps[k].result = <<>>
      /\ OpsOfKind(comps[k].canvas, "drawImage") = <<>>
      /\ BothLoaded(comps[k]) => comps[k].promise = "rejected"

\* C7 amended: a pair with a zero or negative scale is not rejected: the only
\* failures are a missing canvas context and an image that does not load,
\* and once both images have loaded both halves are drawn with the scale
\* applied as given and a result is produced for the pair.
C7_ScaleAppliedAsGiven ==
  /\ pc = "failed" => (SurfaceFailed \/ DecodeFailed)
  /\ \A k \in DOMAIN comps :
       LET c     == comps[k]
           drawn == OpsOfKind(c.canvas, "drawImage")
       IN  (NonPositiveScale(c) /\ BothLoaded(c)) =>
             /\ c.promise = "resolved"
             /\ c.result # <<>>
             /\ Len(drawn) = 2
             /\ Det(drawn[1].ctm) = ScaleSquared(c.leftFile.transform)
             /\ Det(drawn[2].ctm) = ScaleSquared(c.rightFile.transform)

\* C7's case: a pair whose left photo has scale 0 has been composed.
C7_Witness ==
  \E k \in DOMAIN comps :
    /\ NonPositive(comps[k].leftFile.transform)
    /\ comps[k].leftFile.transform.scale = RInt(0)
    /\ comps[k].promise = "resolved"

\* The label of a composite: the explicit text, else the display name
\* derived from the left file's name.
LabelOf(c) ==
  IF globalTextOptions.text # <<>> THEN globalTextOptions.text
  ELSE FormattedName(c.leftFile.name)

\* C8: in every composite produced, no text is drawn when
\* globalTextOptions.enabled is false, whatever the text fields hold; when it
\* is true the label is drawn exactly once, after both halves and before the
\* encoding.
C8_TextOncePerComposite ==
  \A k \in DOMAIN comps :
    LET c    == comps[k]
        ops  == c.canvas.ops
        fill == {j \in DOMAIN ops : ops[j].op = "fillText"}
        strk == {j \in DOMAIN ops : ops[j].op = "strokeText"}
        imgs == {j \in DOMAIN ops : ops[j].op = "drawImage"}
    IN  c.promise = "resolved" =>
          /\ c.textOptions.text # <<>>
          /\ ~globalTextOptions.enabled => (fill = {} /\ strk = {})
          /\ globalTextOptions.enabled =>
               /\ Cardinality(fill) = 1
               /\ Cardinality(strk) = IF globalTextOptions.stroke THEN 1 ELSE 0
               /\ Cardinality(imgs) = 2
               /\ \A j \in fill \cup strk :
                    /\ ops[j].text = LabelOf(c)
                    /\ \A m \in imgs : m < j
               /\ \A j \in fill : \A m \in strk : m < j
          /\ c.encoded = 1
          /\ Base64Decode(DataOf(c.result[1].dataUrl)) =
               [j \in DOMAIN ops |-> OpByte(ops[j])]

\* C8's case: text is enabled without an explicit text, and a composite
\* carries the derived display name.
C8_Witness ==
  /\ globalTextOptions.enabled
  /\ globalTextOptions.text = <<>>
  /\ \E k \in DOMAIN comps :
       /\ comps[k].promise = "resolved"
       /\ \E j \in DOMAIN comps[k].canvas.ops :
            /\ comps[k].canvas.ops[j].op = "fillText"
            /\ comps[k].canvas.ops[j].text = FormattedName(comps[k].leftFile.name)

\* C9: the archive downloadAsZip builds has one entry per result: as many
\* entries as results, and for each result the entry '<name>_combined.jpg'
\* holds that result's encoded image bytes.
C9_OneEntryPerResult ==
  downloaded # "" =>
    /\ Cardinality(zip) = Len(returned)
    /\ \A k \in DOMAIN returned :
         \E e \in zip :
           /\ e.name = returned[k].name \o <<"_combined.jpg">>
           /\ e.data = JpegEncode(comps[k].canvas)

\* C10: under an identity transform the rectangle drawImage paints, for a
\* photo of positive width and height and either half, keeps the photo's
\* aspect ratio, is centred on the half's centre (half * 960 + 480, 540) and
\* fills the half: width >= 960 and height >= 1080, one of them with equality.
C10_CoverFitCentredInHalf ==
  (draw.phase = "drawn"
   /\ draw.transform \in {NoTransform, Transform(0, RInt(1), 0, 0)}) =>
    LET o  == draw.canvas.ops[Len(draw.canvas.ops)]
        r  == o.rect
        hw == Rat(CanvasWidth, 2)
        hh == RInt(CanvasHeight)
    IN  /\ RMul(r[3], RInt(draw.img.height)) = RMul(r[4], RInt(draw.img.width))
        /\ Apply(o.ctm, RAdd(r[1], RDiv(r[3], RInt(2))), RAdd(r[2], RDiv(r[4], RInt(2))))
             = <<RAdd(RMul(RInt(draw.half), hw), RDiv(hw, RInt(2))), RDiv(hh, RInt(2))>>
        /\ RLeq(hw, r[3]) /\ RLeq(hh, r[4])
        /\ r[3] = hw \/ r[4] = hh
====
